---- MODULE Spec2Model ----
(***************************************************************************)
(* SocialPulse (app.py): a Flask service with three routes.  POST          *)
(* /api/analyze forwards a topic to the Gemini API, extracts a JSON        *)
(* payload from the reply text, reshapes it with format_response and       *)
(* returns it; GET /health reports whether GEMINI_API_KEY is configured;   *)
(* GET / serves the static homepage.                                       *)
(*                                                                         *)
(* Texts are sequences of tokens.  The token alphabet keeps exactly the    *)
(* pieces of text the extraction code and the JSON parser tell apart.      *)
(***************************************************************************)
EXTENDS Integers, Sequences, FiniteSets, TLC

-----------------------------------------------------------------------------
(* Bounds of the model *)

\* requests in flight at once (specification SpecConc)
MaxRequests == 2
\* length, in tokens, of an upstream reply text (specification Spec)
MaxText == 4
\* length of an example list in an upstream document
MaxExamples == 8
\* largest reading of the wall clock
MaxClock == 1
\* clock readings that fall on one calendar day
TicksPerDay == 2
\* lengths of the JSON text, and of the text around the fenced block (SpecExtract)
MaxJson == 3
MaxWrap == 2

\* the number of examples the prompt asks the remote model for
ExpectedExamples == 5

-----------------------------------------------------------------------------
(* Text: tokens, str.strip, str.split, the `in` operator *)

\* the fenced-block delimiter (three backticks)
FENCE == "<fence>"
\* the word json
TAG == "json"
\* a newline
NL == "<nl>"
\* a double quote
QUOTE == "<quote>"
\* the text of one JSON object literal (it holds no fence)
OBJ == "<object>"

Tokens == {FENCE, TAG, NL, QUOTE, OBJ}

TokenSeqs(n) == UNION {[1..k -> Tokens] : k \in 0..n}

RECURSIVE lstrip(_)
lstrip(s) == IF s # <<>> /\ Head(s) = NL THEN lstrip(Tail(s)) ELSE s

RECURSIVE rstrip(_)
rstrip(s) ==
    IF s # <<>> /\ s[Len(s)] = NL THEN rstrip(SubSeq(s, 1, Len(s) - 1)) ELSE s

strip(s) == rstrip(lstrip(s))

MatchAt(s, sep, i) ==
    /\ i + Len(sep) - 1 <= Len(s)
    /\ SubSeq(s, i, i + Len(sep) - 1) = sep

\* sep in s
contains(s, sep) == \E i \in 1..Len(s) : MatchAt(s, sep, i)

\* s.split(sep): the segments of s between the occurrences of sep, left to right
RECURSIVE split(_, _)
split(s, sep) ==
    IF contains(s, sep)
    THEN LET i == CHOOSE i \in 1..Len(s) :
                      /\ MatchAt(s, sep, i)
                      /\ \A j \in 1..(i - 1) : ~MatchAt(s, sep, j)
         IN  <<SubSeq(s, 1, i - 1)>>
                 \o split(SubSeq(s, i + Len(sep), Len(s)), sep)
    ELSE <<s>>

-----------------------------------------------------------------------------
(* Python values: the upstream JSON document and what json.loads returns *)

TopKeys ==
    {"sentiment_distribution", "positive_examples", "negative_examples",
     "analysis_summary"}
DistKeys == {"positive", "negative", "neutral"}
ItemKeys == {"text", "reasoning"}

\* A dict is a record of its possible keys plus `has`, the keys it holds.
Item(h, t, why) == [has |-> h, text |-> t, reasoning |-> why]

Dist(h, p, n, u) == [has |-> h, positive |-> p, negative |-> n, neutral |-> u]

Doc(h, sd, pos, neg, summary) ==
    [has |-> h, sentiment_distribution |-> sd, positive_examples |-> pos,
     negative_examples |-> neg, analysis_summary |-> summary]

NoDoc == Doc({}, Dist({}, 0, 0, 0), <<>>, <<>>, "")

\* a document with every key and no examples
EmptyDoc == Doc(TopKeys, Dist(DistKeys, 0, 0, 0), <<>>, <<>>, "")

\* a Python value: a dict (the document), a str (its tokens) or None
PyDict(d) == [kind |-> "dict", dict |-> d, str |-> <<>>]
PyStr(s) == [kind |-> "str", dict |-> NoDoc, str |-> s]
PyNone == [kind |-> "None", dict |-> NoDoc, str |-> <<>>]

\* json.loads(s), where the token OBJ is the text of document d.  JSON allows
\* whitespace around the value; a string is a pair of quotes around characters
\* that are neither a quote nor a control character.
json_loads(s, d) ==
    LET t == strip(s)
    IN  IF t = <<OBJ>>
        THEN [exc |-> "none", detail |-> "", result |-> PyDict(d)]
        ELSE IF /\ Len(t) >= 2
                /\ t[1] = QUOTE
                /\ t[Len(t)] = QUOTE
                /\ \A i \in 2..(Len(t) - 1) : t[i] \in {FENCE, TAG}
        THEN [exc |-> "none", detail |-> "",
              result |-> PyStr(SubSeq(t, 2, Len(t) - 1))]
        ELSE [exc |-> "JSONDecodeError", detail |-> "Expecting value",
              result |-> PyNone]

-----------------------------------------------------------------------------
(* analyze_topic_with_gemini *)

\* what model.generate_content does: it raises, or returns a response whose
\* .text is a text or raises (a reply with no text part)
Reply(r, h, t, d) == [raises |-> r, has_text |-> h, text |-> t, doc |-> d]

\* a faulty variant: the json-tagged branch is missing
ExtractJsonGenericOnly(response_text) ==
    IF contains(response_text, <<FENCE>>)
    THEN strip(split(split(response_text, <<FENCE>>)[2], <<FENCE>>)[1])
    ELSE response_text

\* the extraction of the JSON payload from the stripped reply text
ExtractJson(response_text) ==
    IF contains(response_text, <<FENCE, TAG>>)
    THEN strip(split(split(response_text, <<FENCE, TAG>>)[2], <<FENCE>>)[1])
    ELSE IF contains(response_text, <<FENCE>>)
    THEN strip(split(split(response_text, <<FENCE>>)[2], <<FENCE>>)[1])
    ELSE response_text

\* the except clause prints and re-raises: the exception leaves unchanged.
\* The exceptions of the remote call itself are the client library's, none
\* of them a JSONDecodeError.
analyze_topic_with_gemini(topic, reply) ==
    IF reply.raises
    THEN [exc |-> "GoogleAPIError", detail |-> "upstream error", result |-> PyNone]
    ELSE IF ~reply.has_text
    THEN [exc |-> "ValueError", detail |-> "no text part", result |-> PyNone]
    ELSE json_loads(ExtractJson(strip(reply.text)), reply.doc)

-----------------------------------------------------------------------------
(* format_response *)

Clock == 0..MaxClock

\* datetime.now().strftime('%Y-%m-%d') and datetime.now().isoformat(); the
\* readings of the clock within one call of format_response are one reading
strftime(now) == <<"%Y-%m-%d", now \div TicksPerDay>>
isoformat(now) == <<"iso", now>>

\* f"{x}%"
percent(x) == <<x, "%">>

NoResult == <<>>

\* one converted example; i is the 0-based index of enumerate
FormatExample(ex, i, sentiment, base, first_user, now) ==
    [text |-> ex.text,
     sentiment |-> sentiment,
     score |-> base - (i * 15),
     type |-> "opinion",
     author |-> <<"user_", i + first_user>>,
     created |-> strftime(now),
     reasoning |-> IF "reasoning" \in ex.has THEN ex.reasoning ELSE ""]

\* a faulty variant: only the first five examples are converted
FormatExamplesFirstFive(examples, sentiment, base, first_user, now) ==
    [k \in 1..(IF Len(examples) < ExpectedExamples
               THEN Len(examples) ELSE ExpectedExamples) |->
        FormatExample(examples[k], k - 1, sentiment, base, first_user, now)]

\* a faulty variant: the score falls by 10 for each position
FormatExamplesStepTen(examples, sentiment, base, first_user, now) ==
    [k \in 1..Len(examples) |->
        [FormatExample(examples[k], k - 1, sentiment, base, first_user, now)
            EXCEPT !.score = base - ((k - 1) * 10)]]

\* the loop over one example list
FormatExamples(examples, sentiment, base, first_user, now) ==
    [k \in 1..Len(examples) |->
        FormatExample(examples[k], k - 1, sentiment, base, first_user, now)]

\* the first key whose lookup raises KeyError, in the order the code looks
\* keys up; "" when none does
FirstMissingKey(d) ==
    IF "positive_examples" \notin d.has THEN "positive_examples"
    ELSE IF \E k \in 1..Len(d.positive_examples) :
                "text" \notin d.positive_examples[k].has THEN "text"
    ELSE IF "negative_examples" \notin d.has THEN "negative_examples"
    ELSE IF \E k \in 1..Len(d.negative_examples) :
                "text" \notin d.negative_examples[k].has THEN "text"
    ELSE IF "sentiment_distribution" \notin d.has THEN "sentiment_distribution"
    ELSE IF "positive" \notin d.sentiment_distribution.has THEN "positive"
    ELSE IF "negative" \notin d.sentiment_distribution.has THEN "negative"
    ELSE IF "neutral" \notin d.sentiment_distribution.has THEN "neutral"
    ELSE ""

format_response(topic, gemini_data, now) ==
    IF gemini_data.kind # "dict"
    THEN [exc |-> "TypeError", detail |-> "indices must be integers",
          result |-> NoResult]
    ELSE IF FirstMissingKey(gemini_data.dict) # ""
    THEN [exc |-> "KeyError", detail |-> FirstMissingKey(gemini_data.dict),
          result |-> NoResult]
    ELSE
      LET d == gemini_data.dict
          sentiment_dist == d.sentiment_distribution
      IN  [exc |-> "none", detail |-> "",
           result |-> <<
             [topic |-> topic,
              total_analyzed |-> "AI Analysis",
              posts_analyzed |-> "Multiple Sources",
              sentiment_distribution |->
                  [positive |-> sentiment_dist.positive,
                   negative |-> sentiment_dist.negative,
                   neutral |-> sentiment_dist.neutral],
              positive_perspective |->
                  [percentage |-> sentiment_dist.positive,
                   count |-> percent(sentiment_dist.positive),
                   examples |-> FormatExamples(d.positive_examples,
                                               "positive", 100, 1, now)],
              negative_perspective |->
                  [percentage |-> sentiment_dist.negative,
                   count |-> percent(sentiment_dist.negative),
                   examples |-> FormatExamples(d.negative_examples,
                                               "negative", 95, 6, now)],
              neutral_count |-> percent(sentiment_dist.neutral),
              analysis_summary |->
                  IF "analysis_summary" \in d.has THEN d.analysis_summary ELSE "",
              timestamp |-> isoformat(now),
              powered_by |-> "Gemini 2.0 Flash"] >>]

-----------------------------------------------------------------------------
(* The process environment *)

\* os.environ's GEMINI_API_KEY: <<>> when the variable is not set, else <<value>>
EnvUnset == <<>>
EnvValues == {EnvUnset, <<"">>, <<"secret">>}

\* truth value of os.environ.get('GEMINI_API_KEY'): None and '' are false
PyTruthyKey(env) == env # EnvUnset /\ env[1] # ""

\* a faulty variant: 'GEMINI_API_KEY' in os.environ
KeyIsSet(env) == env # EnvUnset

\* `not os.environ.get('GEMINI_API_KEY')` in analyze_topic, negated
api_key_configured(env) == PyTruthyKey(env)

\* bool(os.environ.get('GEMINI_API_KEY')) in health_check
has_api_key(env) == PyTruthyKey(env)

-----------------------------------------------------------------------------
(* HTTP requests and responses *)

\* the body of a POST: not JSON at all, the JSON null, a JSON array, or a
\* JSON object that may hold the key topic
Body(k, h, t) == [kind |-> k, has_topic |-> h, topic |-> t]

NoBody == Body("none", FALSE, "")

Request(route, body) == [route |-> route, body |-> body]

NoRequest == Request("none", NoBody)

\* a response: status and JSON body.  The body is an object with the key
\* error (error # <<>>), an AnalysisResult (result # <<>>), the health object
\* (health # <<>>) or a file (file # <<>>)
Response(status, error, result, health, file) ==
    [status |-> status, error |-> error, result |-> result,
     health |-> health, file |-> file]

ErrorResponse(status, message) == Response(status, message, <<>>, <<>>, <<>>)

\* request.get_json(): raises on a body that is not JSON, else the parsed value
get_json(body) ==
    IF body.kind = "not_json"
    THEN [exc |-> "BadRequest", detail |-> "400 Bad Request", data |-> NoBody]
    ELSE [exc |-> "none", detail |-> "", data |-> body]

\* a faulty variant: `except Exception` comes first
ErrorPrefixAlwaysGeneric(exc) == "Analysis failed: "

\* the two except clauses of analyze_topic: the message prefix by exception type
ErrorPrefix(exc) ==
    IF exc = "JSONDecodeError"
    THEN "Failed to parse AI response: "
    ELSE "Analysis failed: "

HandlerError(exc, detail) == ErrorResponse(500, <<ErrorPrefix(exc), detail>>)

\* `not topic`, negated: a str is true when it is not empty
PyTruthyStr(t) == t # ""

\* a faulty variant: the topic is not tested
analyze_topic_validate_no_topic_check(body, env) ==
    LET j == get_json(body)
        topic == IF j.data.has_topic THEN j.data.topic ELSE ""
    IN  IF j.exc # "none"
        THEN [proceed |-> FALSE, topic |-> "",
              response |-> <<HandlerError(j.exc, j.detail)>>]
        ELSE IF j.data.kind # "dict"
        THEN [proceed |-> FALSE, topic |-> "",
              response |-> <<HandlerError("AttributeError", "no attribute get")>>]
        ELSE IF ~api_key_configured(env)
        THEN [proceed |-> FALSE, topic |-> "",
              response |->
                  <<ErrorResponse(500, <<"GEMINI_API_KEY not configured">>)>>]
        ELSE [proceed |-> TRUE, topic |-> topic, response |-> <<>>]

\* analyze_topic up to the call of analyze_topic_with_gemini: the response it
\* returns at once, or proceed with the topic
analyze_topic_validate(body, env) ==
    LET j == get_json(body)
        topic == IF j.data.has_topic THEN j.data.topic ELSE ""
    IN  IF j.exc # "none"
        THEN [proceed |-> FALSE, topic |-> "",
              response |-> <<HandlerError(j.exc, j.detail)>>]
        ELSE IF j.data.kind # "dict"
        THEN [proceed |-> FALSE, topic |-> "",
              response |-> <<HandlerError("AttributeError", "no attribute get")>>]
        ELSE IF ~PyTruthyStr(topic)
        THEN [proceed |-> FALSE, topic |-> "",
              response |-> <<ErrorResponse(400, <<"Topic is required">>)>>]
        ELSE IF ~api_key_configured(env)
        THEN [proceed |-> FALSE, topic |-> "",
              response |->
                  <<ErrorResponse(500, <<"GEMINI_API_KEY not configured">>)>>]
        ELSE [proceed |-> TRUE, topic |-> topic, response |-> <<>>]

\* a faulty variant: a reply that does not parse is answered with an empty result
analyze_topic_finish_with_fallback(topic, reply, now) ==
    LET g == analyze_topic_with_gemini(topic, reply)
        f == format_response(topic, g.result, now)
    IN  IF g.exc = "JSONDecodeError"
        THEN Response(200, <<>>,
                      format_response(topic, PyDict(EmptyDoc), now).result,
                      <<>>, <<>>)
        ELSE IF g.exc # "none" THEN HandlerError(g.exc, g.detail)
        ELSE IF f.exc # "none" THEN HandlerError(f.exc, f.detail)
        ELSE Response(200, <<>>, f.result, <<>>, <<>>)

\* analyze_topic from the return of the remote call to the response
analyze_topic_finish(topic, reply, now) ==
    LET g == analyze_topic_with_gemini(topic, reply)
        f == format_response(topic, g.result, now)
    IN  IF g.exc # "none" THEN HandlerError(g.exc, g.detail)
        ELSE IF f.exc # "none" THEN HandlerError(f.exc, f.detail)
        ELSE Response(200, <<>>, f.result, <<>>, <<>>)

health_check(env) ==
    Response(200, <<>>, <<>>,
             <<[status |-> "healthy", gemini_configured |-> has_api_key(env)]>>,
             <<>>)

home == Response(200, <<>>, <<>>, <<>>, <<"templates/index.html">>)

-----------------------------------------------------------------------------
(* Inputs *)

Topics == {"", "ai"}

ConcTopics == {"", "ai", "tax"}

Bodies ==
    {Body("not_json", FALSE, ""), Body("null", FALSE, ""),
     Body("list", FALSE, ""), Body("dict", FALSE, "")}
        \cup {Body("dict", TRUE, t) : t \in Topics}

\* the i-th example of a list: its text, and its reasoning when it has one
Example(h, i) ==
    Item(h, IF "text" \in h THEN <<"quote", i>> ELSE <<>>,
         IF "reasoning" \in h THEN <<"why", i>> ELSE <<>>)

\* n examples that all hold the keys h
ExampleList(n, h) == [i \in 1..n |-> Example(h, i)]

\* every list of at most n examples that hold a text, with or without reasoning
ExampleLists(n) ==
    UNION {{[i \in 1..k |-> Example(hs[i], i)] :
               hs \in [1..k -> {ItemKeys, {"text"}}]} : k \in 0..n}

GoodDist == Dist(DistKeys, 60, 30, 10)

GoodDoc(n, m) ==
    Doc(TopKeys, GoodDist, ExampleList(n, ItemKeys), ExampleList(m, ItemKeys),
        "summary")

\* upstream documents: example lists of every length, a missing key, an
\* example without text or without reasoning, percentages passed as they come
Docs ==
    {GoodDoc(n, MaxExamples - n) : n \in 0..MaxExamples}
        \cup {GoodDoc(ExpectedExamples, ExpectedExamples)}
        \cup {[GoodDoc(ExpectedExamples, ExpectedExamples)
                  EXCEPT !.has = TopKeys \ {k}] : k \in TopKeys}
        \cup {Doc(TopKeys, GoodDist, ExampleList(ExpectedExamples, h),
                  ExampleList(ExpectedExamples, ItemKeys), "summary") :
                  h \in {{"text"}, {"reasoning"}}}
        \cup {Doc(TopKeys, dist, ExampleList(1, ItemKeys),
                  ExampleList(2, ItemKeys), "summary") :
                  dist \in {Dist(DistKeys \ {"neutral"}, 60, 30, 0),
                            Dist(DistKeys, 120, 0 - 5, 0)}}

\* the replies of the remote API: the call raises, the reply has no text, or
\* it has a text; the document behind OBJ matters when the text holds OBJ
Replies(texts, docs) ==
    {Reply(TRUE, FALSE, <<>>, NoDoc), Reply(FALSE, FALSE, <<>>, NoDoc)}
        \cup UNION {{Reply(FALSE, TRUE, t, d) :
                        d \in IF contains(t, <<OBJ>>) THEN docs ELSE {NoDoc}} :
                    t \in texts}

ConcBodies == {Body("null", FALSE, ""), Body("dict", TRUE, "")}
                  \cup {Body("dict", TRUE, t) : t \in ConcTopics \ {""}}

ConcReplies ==
    Replies({<<OBJ>>, <<TAG>>, <<FENCE, TAG, OBJ, FENCE>>}, {GoodDoc(1, 1)})

-----------------------------------------------------------------------------
(* State *)

VARIABLES
    environ,        \* os.environ's GEMINI_API_KEY
    genai_api_key,  \* the key genai.configure stored at import
    pc,             \* per request: "idle", "waiting" (in the remote call), "done"
    request,        \* per request: the request received
    frame,          \* the local variables of the running analyze_topic calls
    upstream,       \* per request: what the remote call returned, the clock read
    calls,          \* per request: invocations of the remote API
    responses,      \* per request: the responses sent
    fmt,            \* format_response applied to an input (SpecFormat)
    ext             \* analyze_topic_with_gemini applied to a reply (SpecExtract)

vars ==
    <<environ, genai_api_key, pc, request, frame, upstream, calls, responses,
      fmt, ext>>

RIDs == 1..MaxRequests

\* a faulty variant: the locals are module globals, shared by every call
SharedFrame(r) == 1

\* the frame that holds the locals of request r's call: one per call

Frame(r) == r

NoFrame == [topic |-> ""]

\* during is a history field: the other requests that were inside the remote
\* call when this one returned
NoUpstream ==
    [reply |-> Reply(FALSE, FALSE, <<>>, NoDoc), now |-> 0, during |-> {}]

NoOut == [exc |-> "none", detail |-> "", result |-> <<>>]

FmtIdle ==
    [topic |-> "", gemini_data |-> PyNone, now |-> 0, applied |-> FALSE,
     out |-> NoOut]

NoExtOut == [exc |-> "none", detail |-> "", result |-> PyNone]

ExtIdle ==
    [pre |-> <<>>, json |-> <<>>, post |-> <<>>, doc |-> NoDoc,
     applied |-> FALSE, out |-> NoExtOut]

\* the process after import: the key is read from the environment once
InitServer ==
    /\ environ \in EnvValues
    /\ genai_api_key = environ
    /\ pc = [r \in RIDs |-> "idle"]
    /\ request = [r \in RIDs |-> NoRequest]
    /\ frame = [r \in RIDs |-> NoFrame]
    /\ upstream = [r \in RIDs |-> NoUpstream]
    /\ calls = [r \in RIDs |-> 0]
    /\ responses = [r \in RIDs |-> <<>>]

Init == InitServer /\ fmt = FmtIdle /\ ext = ExtIdle

Respond(r, resp) ==
    /\ responses' = [responses EXCEPT ![r] = Append(@, resp)]
    /\ pc' = [pc EXCEPT ![r] = "done"]

\* GET /
Home(r) ==
    /\ pc[r] = "idle"
    /\ request' = [request EXCEPT ![r] = Request("/", NoBody)]
    /\ Respond(r, home)
    /\ UNCHANGED <<environ, genai_api_key, frame, upstream, calls, fmt, ext>>

\* GET /health
HealthCheck(r) ==
    /\ pc[r] = "idle"
    /\ request' = [request EXCEPT ![r] = Request("/health", NoBody)]
    /\ Respond(r, health_check(environ))
    /\ UNCHANGED <<environ, genai_api_key, frame, upstream, calls, fmt, ext>>

\* POST /api/analyze, up to the response of a failed check or to the
\* invocation of the remote API, where the handler blocks
AnalyzeStart(r, body) ==
    /\ pc[r] = "idle"
    /\ request' = [request EXCEPT ![r] = Request("/api/analyze", body)]
    /\ LET v == analyze_topic_validate(body, environ)
       IN  IF v.proceed
           THEN /\ frame' = [frame EXCEPT ![Frame(r)] = [topic |-> v.topic]]
                /\ calls' = [calls EXCEPT ![r] = @ + 1]
                /\ pc' = [pc EXCEPT ![r] = "waiting"]
                /\ UNCHANGED responses
           ELSE /\ Respond(r, v.response[1])
                /\ UNCHANGED <<frame, calls>>
    /\ UNCHANGED <<environ, genai_api_key, upstream, fmt, ext>>

\* POST /api/analyze, from the return of the remote call to the response
GeminiReturn(r, reply, now) ==
    /\ pc[r] = "waiting"
    /\ upstream' = [upstream EXCEPT ![r] =
                        [reply |-> reply, now |-> now,
                         during |-> {q \in RIDs \ {r} : pc[q] = "waiting"}]]
    /\ Respond(r, analyze_topic_finish(frame[Frame(r)].topic, reply, now))
    /\ UNCHANGED <<environ, genai_api_key, request, frame, calls, fmt, ext>>

\* one request at a time, every input
Next ==
    \E r \in {1} :
        \/ Home(r)
        \/ HealthCheck(r)
        \/ \E body \in Bodies : AnalyzeStart(r, body)
        \/ /\ pc[r] = "waiting"
           /\ \E reply \in Replies(TokenSeqs(MaxText), Docs), now \in Clock :
                  GeminiReturn(r, reply, now)

Spec == Init /\ [][Next]_vars

\* requests interleaved
NextConc ==
    \E r \in RIDs :
        \/ Home(r)
        \/ HealthCheck(r)
        \/ \E body \in ConcBodies : AnalyzeStart(r, body)
        \/ /\ pc[r] = "waiting"
           /\ \E reply \in ConcReplies, now \in Clock :
                  GeminiReturn(r, reply, now)

SpecConc == Init /\ [][NextConc]_vars

-----------------------------------------------------------------------------
(* format_response applied to every input *)

\* no request is served while a function is applied on its own
ServerIdle ==
    /\ environ = EnvUnset
    /\ genai_api_key = environ
    /\ pc = [r \in RIDs |-> "idle"]
    /\ request = [r \in RIDs |-> NoRequest]
    /\ frame = [r \in RIDs |-> NoFrame]
    /\ upstream = [r \in RIDs |-> NoUpstream]
    /\ calls = [r \in RIDs |-> 0]
    /\ responses = [r \in RIDs |-> <<>>]

server_vars ==
    <<environ, genai_api_key, pc, request, frame, upstream, calls, responses>>

\* documents whose two example lists are any list of at most n examples and
\* a list of no, five or n whole examples
FormatDocs(n) ==
    UNION {{Doc(v[1], v[2], a, b, "summary"), Doc(v[1], v[2], b, a, "summary")} :
              v \in {<<TopKeys, GoodDist>>,
                      <<TopKeys \ {"analysis_summary"},
                        Dist(DistKeys, 120, 0 - 5, 0)>>},
              a \in ExampleLists(n),
              b \in {ExampleList(k, ItemKeys) : k \in {0, ExpectedExamples, n}}}

InitFormat ==
    /\ ServerIdle
    /\ ext = ExtIdle
    /\ fmt \in {[topic |-> "ai", gemini_data |-> PyDict(d), now |-> t,
                 applied |-> FALSE, out |-> NoOut] :
                    d \in FormatDocs(MaxExamples), t \in Clock}

ApplyFormat ==
    /\ ~fmt.applied
    /\ fmt' = [fmt EXCEPT !.applied = TRUE,
                          !.out = format_response(fmt.topic, fmt.gemini_data,
                                                  fmt.now)]
    /\ UNCHANGED <<server_vars, ext>>

NextFormat == ApplyFormat

SpecFormat == InitFormat /\ [][NextFormat]_vars

-----------------------------------------------------------------------------
(* analyze_topic_with_gemini applied to a reply that wraps a JSON text *)

\* the JSON texts: the texts json.loads accepts
JsonTexts(n) ==
    {s \in TokenSeqs(n) : json_loads(s, NoDoc).exc = "none"}

\* the reply text: pre, the json-tagged delimiter, the JSON text, the plain
\* delimiter, post; pre and post hold at most MaxWrap tokens together
Wrapped(pre, json, post) == pre \o <<FENCE, TAG>> \o json \o <<FENCE>> \o post

InitExtract ==
    /\ ServerIdle
    /\ fmt = FmtIdle
    /\ \E j \in JsonTexts(MaxJson), d \in {GoodDoc(1, 1), EmptyDoc} :
           \E a \in TokenSeqs(MaxWrap) :
               \E b \in TokenSeqs(MaxWrap - Len(a)) :
                   ext = [pre |-> a, json |-> j, post |-> b, doc |-> d,
                          applied |-> FALSE, out |-> NoExtOut]

ApplyExtract ==
    /\ ~ext.applied
    /\ ext' = [ext EXCEPT
                  !.applied = TRUE,
                  !.out = analyze_topic_with_gemini(
                              "ai",
                              Reply(FALSE, TRUE,
                                    Wrapped(ext.pre, ext.json, ext.post),
                                    ext.doc))]
    /\ UNCHANGED <<server_vars, fmt>>

NextExtract == ApplyExtract

SpecExtract == InitExtract /\ [][NextExtract]_vars

-----------------------------------------------------------------------------
(* Properties *)

Done(r) == pc[r] = "done"

IsAnalyze(r) == request[r].route = "/api/analyze"

\* the request carries a topic that is not empty
HasTopic(body) == body.kind = "dict" /\ body.has_topic /\ body.topic # ""

\* the environment holds a GEMINI_API_KEY that is not empty
KeyNonEmpty == environ \notin {EnvUnset, <<"">>}

TopicRequired == ErrorResponse(400, <<"Topic is required">>)

KeyNotConfigured == ErrorResponse(500, <<"GEMINI_API_KEY not configured">>)

\* C1: every POST /api/analyze whose topic is absent or empty is answered 400
\* {"error": "Topic is required"}, whatever else it carries and whatever the
\* environment holds.
C1_TopicRequired ==
    \A r \in RIDs :
        Done(r) /\ IsAnalyze(r) /\ ~HasTopic(request[r].body)
            => responses[r] = <<TopicRequired>>

\* C2: every POST /api/analyze with a non-empty topic, made while
\* GEMINI_API_KEY is unset or empty, is answered 500
\* {"error": "GEMINI_API_KEY not configured"}.
C2_KeyNotConfigured ==
    \A r \in RIDs :
        Done(r) /\ IsAnalyze(r) /\ HasTopic(request[r].body) /\ ~KeyNonEmpty
            => responses[r] = <<KeyNotConfigured>>

C2_Witness ==
    \E r \in RIDs :
        /\ Done(r) /\ IsAnalyze(r) /\ HasTopic(request[r].body)
        /\ environ = EnvUnset
        /\ responses[r] = <<KeyNotConfigured>>

\* the text extracted from the reply of request r is not valid JSON
ParseFailed(r) ==
    LET reply == upstream[r].reply
    IN  /\ ~reply.raises
        /\ reply.has_text
        /\ json_loads(ExtractJson(strip(reply.text)), reply.doc).exc
               = "JSONDecodeError"

\* C3: a POST /api/analyze that passed both checks and then failed is
\* answered 500; the message starts with "Failed to parse AI response: " when
\* the extracted text is not valid JSON and with "Analysis failed: " for every
\* other failure.
C3_FailurePrefix ==
    \A r \in RIDs :
        Done(r) /\ IsAnalyze(r) /\ calls[r] > 0 /\ responses[r][1].status # 200
            => /\ responses[r][1].status = 500
               /\ Len(responses[r][1].error) = 2
               /\ responses[r][1].error[1] =
                      IF ParseFailed(r)
                      THEN "Failed to parse AI response: "
                      ELSE "Analysis failed: "

C3_Witness ==
    \E r \in RIDs :
        /\ Done(r) /\ IsAnalyze(r) /\ calls[r] > 0
        /\ ParseFailed(r)
        /\ contains(upstream[r].reply.text, <<FENCE, TAG>>)
        /\ responses[r][1].status = 500
        /\ responses[r][1].error[1] = "Failed to parse AI response: "

Health(b) ==
    Response(200, <<>>, <<>>,
             <<[status |-> "healthy", gemini_configured |-> b]>>, <<>>)

\* C4 as stated: every GET /health is answered 200 {"status": "healthy",
\* "gemini_configured": b} where b is true exactly when GEMINI_API_KEY is
\* present in the environment, and no remote call is made.
C4_Original ==
    \A r \in RIDs :
        Done(r) /\ request[r].route = "/health"
            => responses[r] = <<Health(environ # EnvUnset)>> /\ calls[r] = 0

\* C4, amended: every GET /health is answered 200 {"status": "healthy",
\* "gemini_configured": b} where b is true exactly when GEMINI_API_KEY is set
\* to a non-empty value, and no remote call is made.
C4_HealthReportsKey ==
    \A r \in RIDs :
        Done(r) /\ request[r].route = "/health"
            => responses[r] = <<Health(KeyNonEmpty)>> /\ calls[r] = 0

C4_Witness ==
    \E r \in RIDs :
        /\ Done(r) /\ request[r].route = "/health"
        /\ environ = <<"secret">>
        /\ responses[r][1].health[1].gemini_configured
        /\ calls[r] = 0

\* the scores and the authors of a converted example list
Scores(examples) == [k \in 1..Len(examples) |-> examples[k].score]

\* C5: in the result of format_response the i-th (0-based) positive example
\* has score 100 - 15*i and author "user_" + (i+1), the i-th negative example
\* has score 95 - 15*i and author "user_" + (i+6), in input order and
\* unclamped; five-item lists give 100,85,70,55,40 and 95,80,65,50,35.
C5_ScoresAndAuthors ==
    fmt.applied /\ fmt.out.exc = "none" =>
        LET d == fmt.gemini_data.dict
            pos == fmt.out.result[1].positive_perspective.examples
            neg == fmt.out.result[1].negative_perspective.examples
        IN  /\ Len(pos) = Len(d.positive_examples)
            /\ Len(neg) = Len(d.negative_examples)
            /\ \A i \in 0..(Len(pos) - 1) :
                   /\ pos[i + 1].score = 100 - 15 * i
                   /\ pos[i + 1].author = <<"user_", i + 1>>
                   /\ pos[i + 1].text = d.positive_examples[i + 1].text
            /\ \A i \in 0..(Len(neg) - 1) :
                   /\ neg[i + 1].score = 95 - 15 * i
                   /\ neg[i + 1].author = <<"user_", i + 6>>
                   /\ neg[i + 1].text = d.negative_examples[i + 1].text
            /\ Len(pos) = 5 => Scores(pos) = <<100, 85, 70, 55, 40>>
            /\ Len(neg) = 5 => Scores(neg) = <<95, 80, 65, 50, 35>>

C5_Witness ==
    /\ fmt.applied /\ fmt.out.exc = "none"
    /\ Len(fmt.gemini_data.dict.positive_examples) = MaxExamples
    /\ Len(fmt.gemini_data.dict.negative_examples) = 5
    /\ fmt.out.result[1].positive_perspective.examples[MaxExamples].score < 0
    /\ Scores(fmt.out.result[1].negative_perspective.examples)
           = <<95, 80, 65, 50, 35>>

Ok200(r) == Done(r) /\ IsAnalyze(r) /\ responses[r][1].status = 200

\* C6 as stated: every AnalysisResult returned with status 200 holds exactly
\* five examples in positive_perspective.examples and exactly five in
\* negative_perspective.examples, whatever the upstream reply was.
C6_Original ==
    \A r \in RIDs :
        Ok200(r) =>
            /\ Len(responses[r][1].result[1].positive_perspective.examples) = 5
            /\ Len(responses[r][1].result[1].negative_perspective.examples) = 5

\* C6, amended: every AnalysisResult returned with status 200 holds, in
\* positive_perspective.examples and in negative_perspective.examples, one
\* example for each item of the upstream reply's positive_examples and
\* negative_examples, in the same order: exactly five when the reply holds five.
C6_OneExamplePerItem ==
    \A r \in RIDs :
        Ok200(r) =>
            LET d == upstream[r].reply.doc
                pos == responses[r][1].result[1].positive_perspective.examples
                neg == responses[r][1].result[1].negative_perspective.examples
            IN  /\ Len(pos) = Len(d.positive_examples)
                /\ Len(neg) = Len(d.negative_examples)
                /\ \A k \in 1..Len(pos) : pos[k].text = d.positive_examples[k].text
                /\ \A k \in 1..Len(neg) : neg[k].text = d.negative_examples[k].text

C6_Witness ==
    \E r \in RIDs :
        /\ Ok200(r)
        /\ Len(upstream[r].reply.doc.positive_examples) = 5
        /\ Len(upstream[r].reply.doc.negative_examples) = 5
        /\ Len(responses[r][1].result[1].positive_perspective.examples) = 5
        /\ Len(responses[r][1].result[1].negative_perspective.examples) = 5

\* the object analyze_topic_with_gemini returned is the one json.loads gives
\* for the JSON text alone
RoundTrip ==
    /\ ext.out.exc = "none"
    /\ ext.out.result = json_loads(ext.json, ext.doc).result

\* C7 as stated: for every JSON text J, when the reply is J inside a block
\* opened with the json-tagged delimiter and closed with the plain delimiter,
\* with optional text around it, analyze_topic_with_gemini returns what
\* parsing J directly returns.
C7_Original == ext.applied => RoundTrip

\* C7, amended: the same, for every JSON text J that does not itself hold the
\* delimiter, when no json-tagged delimiter comes before the one that opens
\* the block: the extraction takes the content between the first json-tagged
\* delimiter and the next delimiter.
C7_FencedJsonRoundTrip ==
    /\ ext.applied
    /\ ~contains(ext.json, <<FENCE>>)
    /\ ~contains(ext.pre, <<FENCE, TAG>>)
    => RoundTrip

C7_Witness ==
    /\ ext.applied
    /\ ext.pre = <<TAG, NL>>
    /\ ext.json = <<NL, OBJ, NL>>
    /\ ext.post = <<>>
    /\ ext.doc = GoodDoc(1, 1)
    /\ ext.out.exc = "none"
    /\ ext.out.result = PyDict(GoodDoc(1, 1))

\* the response to a request handled alone, from its own inputs
HandledAlone(req, env, up) ==
    IF req.route = "/" THEN home
    ELSE IF req.route = "/health" THEN health_check(env)
    ELSE LET v == analyze_topic_validate(req.body, env)
         IN  IF v.proceed
             THEN analyze_topic_finish(v.topic, up.reply, up.now)
             ELSE v.response[1]

\* C8: however the requests to the three routes interleave, the response to
\* each is the one it would get handled alone with the same environment and
\* the same upstream reply.
C8_Independent ==
    \A r \in RIDs :
        Done(r) => responses[r] = <<HandledAlone(request[r], environ, upstream[r])>>

C8_Witness ==
    \E r \in RIDs, q \in RIDs :
        /\ Done(r) /\ Done(q) /\ IsAnalyze(r) /\ IsAnalyze(q)
        /\ q \in upstream[r].during
        /\ request[r].body.topic # request[q].body.topic
        /\ responses[r][1].status = 200
        /\ responses[q][1].status = 200

\* C9: one POST /api/analyze invokes the remote API at most once, and only
\* after its topic was found non-empty and the key found configured; no
\* failure is followed by a second invocation.
C9_AtMostOneCall ==
    \A r \in RIDs :
        /\ calls[r] <= 1
        /\ calls[r] = 1 =>
               IsAnalyze(r) /\ HasTopic(request[r].body) /\ KeyNonEmpty

C9_Witness ==
    \E r \in RIDs :
        /\ Done(r) /\ IsAnalyze(r)
        /\ ParseFailed(r)
        /\ responses[r][1].status = 500
        /\ calls[r] = 1

ResultKeys ==
    {"topic", "total_analyzed", "posts_analyzed", "sentiment_distribution",
     "positive_perspective", "negative_perspective", "neutral_count",
     "analysis_summary", "timestamp", "powered_by"}

\* validation, the key check, the remote call, the parse and the formatter
\* all succeeded for request r
AllSucceeded(r) ==
    /\ HasTopic(request[r].body)
    /\ KeyNonEmpty
    /\ calls[r] = 1
    /\ analyze_topic_with_gemini(request[r].body.topic, upstream[r].reply).exc
           = "none"
    /\ format_response(
           request[r].body.topic,
           analyze_topic_with_gemini(request[r].body.topic,
                                     upstream[r].reply).result,
           upstream[r].now).exc = "none"

\* C10: a POST /api/analyze ends in exactly one response, of status 200, 400
\* or 500; it is 200 with a complete AnalysisResult only when every step
\* succeeded, and otherwise the body holds an error message and nothing else.
C10_OneResponse ==
    \A r \in RIDs :
        /\ ~Done(r) => responses[r] = <<>>
        /\ Done(r) /\ IsAnalyze(r) =>
               LET resp == responses[r][1]
               IN  /\ Len(responses[r]) = 1
                   /\ resp.status \in {200, 400, 500}
                   /\ resp.health = <<>> /\ resp.file = <<>>
                   /\ resp.status = 200 =>
                          /\ AllSucceeded(r)
                          /\ resp.error = <<>>
                          /\ Len(resp.result) = 1
                          /\ DOMAIN resp.result[1] = ResultKeys
                   /\ resp.status # 200 =>
                          /\ ~AllSucceeded(r)
                          /\ resp.error # <<>>
                          /\ resp.result = <<>>

C10_Witness ==
    \E r \in RIDs :
        /\ Done(r) /\ IsAnalyze(r)
        /\ responses[r][1].status = 500
        /\ ~upstream[r].reply.raises
        /\ upstream[r].reply.has_text
        /\ ~ParseFailed(r)
        /\ responses[r][1].result = <<>>

====
